---- MODULE Spec2Model ----
(***************************************************************************)
(* A model of make_wheels.py: the repackaging of a Git binary distribution *)
(* (a MinGit zip archive or a local build directory) into a wheel, and the *)
(* command line loop that builds one wheel per requested platform.         *)
(*                                                                         *)
(* Byte strings and text are TLA+ strings; a string is handled character   *)
(* by character with Len, SubSeq and \o, as the Python code does.          *)
(***************************************************************************)
EXTENDS Integers, Sequences, FiniteSets, TLC

VARIABLES
    pc,            \* position of the process: which function runs next
    args,          \* the parsed command line (argparse namespace)
    fs,            \* the directory named by --binary-dir / binary_dir
    platforms,     \* main: the list the loop runs over
    idx,           \* main: number of loop iterations finished
    release_info,  \* build_windows_wheel: the fetched release document
    asset,         \* build_windows_wheel: result of find_mingit_asset
    dl,            \* build_windows_wheel: what the two downloads received
    wheel_version, \* the version every wheel of this run carries
    archive_data,  \* the bytes handed to write_git_wheel
    err,           \* the exception that ended the process, "" if none
    outdir,        \* the output directory: file name -> wheel entries
    builds,        \* write_git_wheel: the archives written so far, in order
    tag_in,        \* write_wheel: the compressed tag it is given
    expanded,      \* write_wheel: the expanded tags of the WHEEL file
    wheel_open     \* write_wheel_file: the archive that is open for writing

vars == <<pc, args, fs, platforms, idx, release_info, asset, dl,
          wheel_version, archive_data, err, outdir, builds,
          tag_in, expanded, wheel_open>>

----------------------------------------------------------------------------
(* Bounds of the model.                                                    *)

MaxEntries == 2      \* files and symlinks in a local build directory
MaxZipEntries == 2   \* entries of a source zip archive
MaxBuilds == 2       \* calls of write_git_wheel on one input
MaxPlatforms == 2    \* --platform options on one command line
MaxTagAlts == 2      \* dot-separated alternatives in one field of a tag
MaxAssets == 3       \* assets in one release document

----------------------------------------------------------------------------
(* Strings.                                                                *)

Char(s, i) == SubSeq(s, i, i)

StartsWith(s, p) == Len(s) >= Len(p) /\ SubSeq(s, 1, Len(p)) = p

EndsWith(s, p) == Len(s) >= Len(p) /\ SubSeq(s, Len(s) - Len(p) + 1, Len(s)) = p

\* The position of the last "/" of s, 0 when it has none.
LastSlash(s) ==
    LET S == {i \in 1..Len(s) : Char(s, i) = "/"}
    IN  IF S = {} THEN 0 ELSE CHOOSE i \in S : \A j \in S : j <= i

\* Path.parent of a relative path, "" for an entry of the root.
Parent(s) == IF LastSlash(s) = 0 THEN "" ELSE SubSeq(s, 1, LastSlash(s) - 1)

\* str.split(sep) for a one-character separator.
RECURSIVE Split(_, _)
Split(s, sep) ==
    LET S == {i \in 1..Len(s) : Char(s, i) = sep}
    IN  IF S = {} THEN <<s>>
        ELSE LET i == CHOOSE k \in S : \A j \in S : k <= j
             IN  <<SubSeq(s, 1, i - 1)>> \o Split(SubSeq(s, i + 1, Len(s)), sep)

\* sep.join(parts)
RECURSIVE Join(_, _)
Join(parts, sep) ==
    IF parts = <<>> THEN ""
    ELSE IF Len(parts) = 1 THEN parts[1]
    ELSE parts[1] \o sep \o Join(Tail(parts), sep)

\* The sequences that enumerate the set S once each.
Perms(S) ==
    {f \in [1..Cardinality(S) -> S] : \A i, j \in 1..Cardinality(S) : f[i] = f[j] => i = j}

----------------------------------------------------------------------------
(* Program constants.                                                      *)

S_IFREG == 32768          \* stat.S_IFREG, 0o100000
Mode755 == 493            \* 0o0755
Mode644 == 420            \* 0o0644
Mode664 == 436            \* 0o0664
ZIP_DEFLATED == 8

\* A 32-bit external_attr word, kept as its two 16-bit halves.
Shl16(x) == [hi |-> x % 65536, lo |-> 0]      \* x << 16, for x < 2^16
Shr16(a) == a.hi                              \* a >> 16

PlatformNames ==
    <<"win_amd64", "win_arm64", "win32", "macos_x86_64", "macos_arm64",
      "linux_x86_64", "linux_aarch64">>

PLATFORM_TAGS ==
    [p \in {PlatformNames[i] : i \in 1..Len(PlatformNames)} |->
        CASE p = "win_amd64" -> "win_amd64"
          [] p = "win_arm64" -> "win_arm64"
          [] p = "win32" -> "win32"
          [] p = "macos_x86_64" -> "macosx_10_15_x86_64"
          [] p = "macos_arm64" -> "macosx_11_0_arm64"
          [] p = "linux_x86_64" -> "manylinux_2_17_x86_64.musllinux_1_1_x86_64"
          [] p = "linux_aarch64" -> "manylinux_2_17_aarch64.musllinux_1_1_aarch64"]

INIT_PY == "python_git_bin/__init__.py"
MAIN_PY == "python_git_bin/__main__.py"
InitPyData == "Git binary distribution package."
MainPyData == "from python_git_bin import main"

----------------------------------------------------------------------------
(* The inputs: a local build directory and a source archive.               *)

\* One entry of a directory tree: kind is "file", "symlink" or "dir"; rel is
\* its path relative to the root, mode its st_mode, data its bytes (files),
\* target its link target (symlinks).
File(rel, mode, data) ==
    [rel |-> rel, kind |-> "file", mode |-> mode, data |-> data, target |-> ""]
Symlink(rel, target) ==
    [rel |-> rel, kind |-> "symlink", mode |-> 41471, data |-> "", target |-> target]
Dir(rel) ==
    [rel |-> rel, kind |-> "dir", mode |-> 16877, data |-> "", target |-> ""]

\* A directory that may not exist.
NoDir == [exists |-> FALSE, tree |-> {}]
ADir(tree) == [exists |-> TRUE, tree |-> tree]

\* The directories a set of entries needs: every proper ancestor.
RECURSIVE Ancestors(_)
Ancestors(rel) ==
    IF Parent(rel) = "" THEN {} ELSE {Parent(rel)} \cup Ancestors(Parent(rel))

Closure(leaves) ==
    leaves \cup {Dir(d) : d \in UNION {Ancestors(e.rel) : e \in leaves}}

\* The entries directly inside directory d of the tree (d = "" is the root).
Children(tree, d) == {e \in tree : Parent(e.rel) = d}

\* Path.rglob("*"): the entries of a directory in the order the filesystem
\* lists them, then the same for each real subdirectory in that order.  The
\* listing order of one directory is the filesystem's choice, so rglob is
\* the set of the walks it can produce.
RECURSIVE rglob(_, _), rglobEach(_, _)
rglob(tree, d) ==
    UNION { {p \o rest :
                rest \in rglobEach(tree, SelectSeq(p, LAMBDA e : e.kind = "dir"))} :
            p \in Perms(Children(tree, d)) }
rglobEach(tree, dirs) ==
    IF dirs = <<>> THEN {<<>>}
    ELSE {a \o b : a \in rglob(tree, dirs[1].rel), b \in rglobEach(tree, Tail(dirs))}

\* The tree below the subdirectory sub of a tree, paths made relative to it.
SubTree(tree, sub) ==
    {[e EXCEPT !.rel = SubSeq(e.rel, Len(sub) + 2, Len(e.rel))] :
        e \in {x \in tree : StartsWith(x.rel, sub \o "/")}}

\* Bytes handed over as archive_data: None, b"", a zip archive with its
\* member list, or bytes that are no zip archive.  sha is the SHA-256 hex
\* digest hashlib computes for the bytes.
NoData == [kind |-> "none", infolist |-> <<>>, sha |-> ""]
EmptyData == [kind |-> "empty", infolist |-> <<>>, sha |-> "e3b0"]
Garbage == [kind |-> "garbage", infolist |-> <<>>, sha |-> "9f86"]
Zip(infolist, sha) == [kind |-> "zip", infolist |-> infolist, sha |-> sha]

\* One member of a zip archive as ZipFile.infolist() returns it.
ZipEntry(filename, mode, data) ==
    [filename |-> filename, external_attr |-> Shl16(mode), data |-> data]

\* Python truth value of bytes-or-None and of str-or-None.
Truthy(data) == data.kind \notin {"none", "empty"}

----------------------------------------------------------------------------
(* ReproducibleWheelFile and the wheel writer.                             *)

\* A key of the contents mapping: a str, or a ZipInfo object.  ZipInfo has
\* no __eq__/__hash__, so a ZipInfo key is equal only to itself: id is the
\* object's identity.
StrKey(name) ==
    [zinfo |-> FALSE, id |-> 0, filename |-> name, external_attr |-> Shl16(0)]
ZipInfo(id, filename, external_attr) ==
    [zinfo |-> TRUE, id |-> id, filename |-> filename, external_attr |-> external_attr]

\* contents[key] = value on an insertion-ordered dict, kept as a sequence of
\* items: an equal key keeps its position and gets the new value.
DictSet(contents, key, value) ==
    IF \E i \in 1..Len(contents) : contents[i].key = key
    THEN [i \in 1..Len(contents) |->
            IF contents[i].key = key THEN [key |-> key, value |-> value]
            ELSE contents[i]]
    ELSE Append(contents, [key |-> key, value |-> value])

\* {**a, **b}
RECURSIVE DictMerge(_, _)
DictMerge(a, b) ==
    IF b = <<>> THEN a ELSE DictMerge(DictSet(a, b[1].key, b[1].value), Tail(b))

\* writestr that gives a descriptor the default mode as well.
writestr_ResetsMode(zinfo_or_arcname, data) ==
    LET external_attr ==
            IF EndsWith(zinfo_or_arcname.filename, ".dist-info/RECORD")
            THEN Shl16(Mode664)
            ELSE Shl16(Mode644)
    IN  [filename |-> zinfo_or_arcname.filename,
         external_attr |-> external_attr,
         compress_type |-> ZIP_DEFLATED,
         date_time |-> <<1980, 1, 1, 0, 0, 0>>,
         create_system |-> 3,
         data |-> data]

\* ReproducibleWheelFile.writestr: the archive entry written for one item.
writestr(zinfo_or_arcname, data) ==
    LET external_attr ==
            IF zinfo_or_arcname.zinfo THEN zinfo_or_arcname.external_attr
            ELSE IF EndsWith(zinfo_or_arcname.filename, ".dist-info/RECORD")
                 THEN Shl16(Mode664)
                 ELSE Shl16(Mode644)
    IN  [filename |-> zinfo_or_arcname.filename,
         external_attr |-> external_attr,
         compress_type |-> ZIP_DEFLATED,
         date_time |-> <<1980, 1, 1, 0, 0, 0>>,
         create_system |-> 3,
         data |-> data]

\* bytes(make_message(headers, payload)): one "Name: value" line per value of
\* each header, a blank line, the payload.  A header is <<name, values>>.
RECURSIVE HeaderLines(_)
HeaderLines(headers) ==
    IF headers = <<>> THEN ""
    ELSE LET name == headers[1][1]
             values == headers[1][2]
         IN  Join([i \in 1..Len(values) |-> name \o ": " \o values[i] \o "\n"], "")
                \o HeaderLines(Tail(headers))

make_message(headers, payload) == HeaderLines(headers) \o "\n" \o payload

\* write_wheel_file: the entries of the archive, in the order of the mapping.
write_wheel_file(contents) ==
    [i \in 1..Len(contents) |-> writestr(contents[i].key, contents[i].value)]

\* No archive is open for writing.
NoWheel == [filename |-> "", open |-> FALSE, contents |-> <<>>, n |-> 0]

\* expanded_tags with the loops nested the other way round: python tag outer.
expanded_tags_PythonOuter(tag) ==
    LET parts == Split(tag, "-")
        xs == Split(parts[1], ".")
        ys == Split(parts[2], ".")
        zs == Split(parts[3], ".")
        n == Len(xs) * Len(ys) * Len(zs)
    IN  [k \in 1..n |->
            LET z == zs[((k - 1) % Len(zs)) + 1]
                y == ys[(((k - 1) \div Len(zs)) % Len(ys)) + 1]
                x == xs[((k - 1) \div (Len(zs) * Len(ys))) + 1]
            IN  Join(<<x, y, z>>, "-")]

\* The expansion of a compressed tag in write_wheel.
expanded_tags(tag) ==
    LET parts == Split(tag, "-")
        xs == Split(parts[1], ".")
        ys == Split(parts[2], ".")
        zs == Split(parts[3], ".")
        n == Len(xs) * Len(ys) * Len(zs)
    IN  [k \in 1..n |->
            LET x == xs[((k - 1) % Len(xs)) + 1]
                y == ys[(((k - 1) \div Len(xs)) % Len(ys)) + 1]
                z == zs[((k - 1) \div (Len(xs) * Len(ys))) + 1]
            IN  Join(<<x, y, z>>, "-")]

\* The mapping write_wheel hands to write_wheel_file: the caller's contents,
\* then entry_points.txt, METADATA and WHEEL.
wheel_contents(name, version, tag, metadata, description, contents) ==
    LET dist_info == name \o "-" \o version \o ".dist-info"
        meta ==
            << [key |-> StrKey(dist_info \o "/entry_points.txt"),
                value |-> make_message(<<>>, "[console_scripts]\ngit = python_git_bin:main")],
               [key |-> StrKey(dist_info \o "/METADATA"),
                value |-> make_message(
                    << <<"Metadata-Version", <<"2.4">> >>,
                       <<"Name", <<name>> >>,
                       <<"Version", <<version>> >> >> \o metadata,
                    description)],
               [key |-> StrKey(dist_info \o "/WHEEL"),
                value |-> make_message(
                    << <<"Wheel-Version", <<"1.0">> >>,
                       <<"Generator", <<"git-bin make_wheels.py">> >>,
                       <<"Root-Is-Purelib", <<"false">> >>,
                       <<"Tag", expanded_tags(tag)>> >>,
                    "")] >>
    IN  DictMerge(contents, meta)

\* write_wheel that leaves the tag out of the file name.
write_wheel_NoTag(name, version, tag, metadata, description, contents) ==
    LET wheel_name == name \o "-" \o version \o ".whl"
    IN  [name |-> wheel_name,
         entries |-> write_wheel_file(
                        wheel_contents(name, version, tag, metadata, description, contents))]

\* write_wheel: the file name and the entries of the wheel.
write_wheel(name, version, tag, metadata, description, contents) ==
    LET wheel_name == name \o "-" \o version \o "-" \o tag \o ".whl"
    IN  [name |-> wheel_name,
         entries |-> write_wheel_file(
                        wheel_contents(name, version, tag, metadata, description, contents))]

----------------------------------------------------------------------------
(* write_git_wheel.                                                        *)

GIT_PREFIX == "python_git_bin/git/"

\* VirtualPath with the git/ directory left out of the prefix.
VirtualPath_NoGitDir(name) == "python_git_bin/" \o name

\* The f-string that names a source entry inside the wheel.
VirtualPath(name) == GIT_PREFIX \o name

\* repr() of a str without quotes or backslashes.
Repr(s) == "'" \o s \o "'"

\* The launcher generated for a symlink.
shim_script(target) ==
    "#!/usr/bin/env python3\nimport subprocess\nimport sys\nfrom pathlib import Path\n"
        \o "target = Path(__file__).parent / " \o Repr(target) \o "\n"
        \o "sys.exit(subprocess.call([str(target)] + sys.argv[1:]))\n"

\* The two synthesized files every wheel starts with.
LauncherContents ==
    DictSet(DictSet(<<>>, StrKey(INIT_PY), InitPyData), StrKey(MAIN_PY), MainPyData)

\* iter_zip_contents: (filename, external_attr >> 16, bytes) of every member
\* that is not a directory, in archive order.
iter_zip_contents(data) ==
    LET files == SelectSeq(data.infolist, LAMBDA e : ~EndsWith(e.filename, "/"))
    IN  [i \in 1..Len(files) |->
            [entry_name |-> files[i].filename,
             entry_mode |-> Shr16(files[i].external_attr),
             entry_data |-> files[i].data]]

\* ZipEntryAttr without the rule for names that end in ".exe".
ZipEntryAttr_NoExeRule(entry_name, entry_mode) ==
    IF entry_mode # 0 THEN Shl16(entry_mode % 65536)
    ELSE Shl16(Mode644)

\* The external_attr given to a member of the source zip.
ZipEntryAttr(entry_name, entry_mode) ==
    IF entry_mode # 0 THEN Shl16(entry_mode % 65536)
    ELSE IF EndsWith(entry_name, ".exe") THEN Shl16(Mode755)
    ELSE Shl16(Mode644)

\* The loop over the members of the source zip.
RECURSIVE AddZipContents(_, _)
AddZipContents(contents, items) ==
    IF items = <<>> THEN contents
    ELSE LET e == items[1]
             zip_info == ZipInfo(Len(contents) + 1, VirtualPath(e.entry_name),
                                 ZipEntryAttr(e.entry_name, e.entry_mode))
         IN  AddZipContents(DictSet(contents, zip_info, e.entry_data), Tail(items))

\* LocalFileMode that forgets the libexec/ directory.
LocalFileMode_BinOnly(rel_str, st_mode) ==
    IF StartsWith(rel_str, "bin/") THEN S_IFREG + Mode755 ELSE st_mode

\* The mode given to a regular file of the local build directory.
LocalFileMode(rel_str, st_mode) ==
    IF StartsWith(rel_str, "bin/") \/ StartsWith(rel_str, "libexec/")
    THEN S_IFREG + Mode755
    ELSE st_mode

\* SkippedLink that drops every link whose target ends in git.
SkippedLink_Suffix(target) == EndsWith(target, "git")

\* A symlink the loop drops.
SkippedLink(target) == target = "git"

\* The loop over binary_path.rglob("*"): listing is the walk rglob produced.
RECURSIVE AddDirContents(_, _, _)
AddDirContents(contents, listing, n) ==
    IF listing = <<>> THEN contents
    ELSE LET e == listing[1]
             name == VirtualPath(e.rel)
             next ==
                IF e.kind = "symlink"
                THEN IF SkippedLink(e.target) THEN contents
                     ELSE DictSet(contents, ZipInfo(n, name, Shl16(Mode755)),
                                  shim_script(e.target))
                ELSE IF e.kind = "file"
                THEN DictSet(contents,
                             ZipInfo(n, name,
                                     Shl16(LocalFileMode(e.rel, e.mode) % 65536)),
                             e.data)
                ELSE contents
         IN  AddDirContents(next, Tail(listing), n + 1)

GitMetadata ==
    << <<"Summary", <<"Git - fast, scalable, distributed revision control system">> >>,
       <<"Description-Content-Type", <<"text/markdown">> >>,
       <<"License-Expression", <<"GPL-2.0-only">> >>,
       <<"Classifier", <<"Development Status :: 5 - Production/Stable">> >>,
       <<"Classifier", <<"Intended Audience :: Developers">> >>,
       <<"Classifier", <<"Topic :: Software Development :: Version Control :: Git">> >>,
       <<"Classifier", <<"Programming Language :: C">> >>,
       <<"Classifier",
         <<"License :: OSI Approved :: GNU General Public License v2 (GPLv2)">> >>,
       <<"Project-URL", <<"Homepage, https://git-scm.com">> >>,
       <<"Project-URL", <<"Source Code, https://github.com/git/git">> >>,
       <<"Project-URL", <<"PyPI Project, https://github.com/zanieb/git-pypi">> >>,
       <<"Requires-Python", <<">=3.8">> >> >>

DefaultDescription == "Git distributed as a Python package."

\* README.pypi.md next to the script: absent here, so the default is used.
README == [exists |-> FALSE, text |-> ""]
Description == IF README.exists THEN README.text ELSE DefaultDescription

\* The exceptions write_git_wheel raises.
ErrPlatform == "KeyError: platform"
ErrNoSource == "ValueError: Either archive_data or binary_dir must be provided"
ErrNoDir == "ValueError: Binary directory not found"
ErrBadZip == "BadZipFile"

Raise(e) == [ok |-> FALSE, err |-> e, name |-> "", entries |-> <<>>]
Return(wheel) == [ok |-> TRUE, err |-> "", name |-> wheel.name, entries |-> wheel.entries]

\* write_git_wheel without the check that the directory exists.
write_git_wheel_NoExistsCheck(version, platform, data, binary_dir, dir, listing) ==
    IF platform \notin DOMAIN PLATFORM_TAGS THEN Raise(ErrPlatform)
    ELSE IF Truthy(data)
    THEN IF data.kind # "zip" THEN Raise(ErrBadZip)
         ELSE Return(write_wheel("python_git_bin", version,
                        "py3-none-" \o PLATFORM_TAGS[platform], GitMetadata,
                        Description,
                        AddZipContents(LauncherContents, iter_zip_contents(data))))
    ELSE IF binary_dir # ""
    THEN Return(write_wheel("python_git_bin", version,
                        "py3-none-" \o PLATFORM_TAGS[platform], GitMetadata,
                        Description,
                        AddDirContents(LauncherContents, listing, 1)))
    ELSE Raise(ErrNoSource)

\* write_git_wheel(out_dir, version=, platform=, archive_data=, binary_dir=):
\* the exception it raises or the wheel file it writes.  dir is the
\* directory binary_dir names; listing is the walk of it rglob returns.
write_git_wheel(version, platform, data, binary_dir, dir, listing) ==
    IF platform \notin DOMAIN PLATFORM_TAGS THEN Raise(ErrPlatform)
    ELSE IF Truthy(data)
    THEN IF data.kind # "zip" THEN Raise(ErrBadZip)
         ELSE Return(write_wheel("python_git_bin", version,
                        "py3-none-" \o PLATFORM_TAGS[platform], GitMetadata,
                        Description,
                        AddZipContents(LauncherContents, iter_zip_contents(data))))
    ELSE IF binary_dir # ""
    THEN IF ~dir.exists THEN Raise(ErrNoDir)
         ELSE Return(write_wheel("python_git_bin", version,
                        "py3-none-" \o PLATFORM_TAGS[platform], GitMetadata,
                        Description,
                        AddDirContents(LauncherContents, listing, 1)))
    ELSE Raise(ErrNoSource)

\* The walks rglob can return for the call above (one empty walk when the
\* directory is not walked at all).
Listings(data, binary_dir, dir) ==
    IF ~Truthy(data) /\ binary_dir # "" /\ dir.exists THEN rglob(dir.tree, "")
    ELSE {<<>>}

\* The output directory after a wheel file has been written into it.
WriteFile(dirstate, res) ==
    [n \in DOMAIN dirstate \cup {res.name} |->
        IF n = res.name THEN res.entries ELSE dirstate[n]]

----------------------------------------------------------------------------
(* The inputs the model draws from.                                        *)

\* Files and symlinks a local build directory is made of.
LeafPool ==
    { File("bin/git", 33188, "G"),          \* 0o100644
      File("bin/git", 32768, "G"),          \* 0o100000
      File("libexec/rh", 33152, "H"),       \* 0o100600
      File("share/t", 33188, "T"),          \* 0o100644
      File("share/t", 33261, "T"),          \* 0o100755
      File("binx/t", 33184, "B"),           \* 0o100640
      File("__init__.py", 33188, "I"),
      Symlink("bin/ln", "git"),
      Symlink("libexec/rs", "rh"),
      Symlink("share/ln", "../bin/git") }

Trees ==
    {Closure(L) : L \in {M \in SUBSET LeafPool :
        /\ Cardinality(M) <= MaxEntries
        /\ \A a, b \in M : a.rel = b.rel => a = b}}

\* Members a source zip archive is made of.
ZipPool ==
    { ZipEntry("a.txt", 0, "A"),
      ZipEntry("a.txt", 33188, "B"),
      [ZipEntry("cmd/git.exe", 0, "E") EXCEPT !.external_attr.lo = 32],
      ZipEntry("cmd/", 0, ""),
      ZipEntry("__init__.py", 33261, "I"),
      [ZipEntry("bin/git", 33188, "G") EXCEPT !.external_attr.lo = 32] }

RECURSIVE SeqsUpTo(_, _)
SeqsUpTo(S, n) ==
    IF n = 0 THEN {<<>>}
    ELSE SeqsUpTo(S, n - 1) \cup
         {Append(q, x) : q \in {r \in SeqsUpTo(S, n - 1) : Len(r) = n - 1}, x \in S}

Archives == {Zip(l, "0a1b") : l \in SeqsUpTo(ZipPool, MaxZipEntries)} \cup {Garbage}

OneTree == Closure({File("bin/git", 33188, "G")})

EmptyDirState == [n \in {} |-> <<>>]

NoRelease == [found |-> FALSE, assets |-> <<>>]
NoAsset == [url |-> "", name |-> "", sha256_url |-> ""]
NoDownload == [done |-> FALSE, data |-> NoData, sums |-> ""]

Args(version, platform, binary_dir, build) ==
    [version |-> version, platform |-> platform, binary_dir |-> binary_dir,
     build |-> build]

----------------------------------------------------------------------------
(* write_git_wheel called on one input, MaxBuilds times.                   *)

InitWheel ==
    /\ pc = "wheel"
    /\ \E p \in {"win_amd64", "linux_x86_64", "plan9"} :
        /\ args \in {Args("2.47.1", <<p>>, b, "20260115") : b \in {"", "/b"}}
        /\ outdir \in
            {EmptyDirState,
             [n \in {"python_git_bin-2.47.1.20260115-py3-none-" \o
                        (IF p \in DOMAIN PLATFORM_TAGS THEN PLATFORM_TAGS[p] ELSE p)
                        \o ".whl"} |-> <<>>]}
    /\ \/ archive_data \in Archives /\ fs \in {NoDir, ADir(OneTree)}
       \/ /\ archive_data \in {NoData, EmptyData}
          /\ \/ args.binary_dir # "" /\ fs \in {NoDir} \cup {ADir(t) : t \in Trees}
             \/ args.binary_dir = "" /\ fs \in {NoDir, ADir(OneTree)}
    /\ wheel_version = "2.47.1.20260115"
    /\ platforms = args.platform
    /\ idx = 0
    /\ release_info = NoRelease
    /\ asset = NoAsset
    /\ dl = NoDownload
    /\ err = ""
    /\ builds = <<>>
    /\ tag_in = ""
    /\ expanded = <<>>
    /\ wheel_open = NoWheel

\* One call write_git_wheel(out_dir, version=, platform=, archive_data=,
\* binary_dir=) on the input.
CallWriteGitWheel ==
    /\ pc = "wheel"
    /\ Len(builds) < MaxBuilds
    /\ \E listing \in Listings(archive_data, args.binary_dir, fs) :
        LET res == write_git_wheel(wheel_version, platforms[1], archive_data,
                                   args.binary_dir, fs, listing)
        IN  /\ builds' = Append(builds, res)
            /\ err' = res.err
            /\ outdir' = IF res.ok THEN WriteFile(outdir, res) ELSE outdir
    /\ UNCHANGED <<tag_in, expanded, wheel_open, pc, args, fs, platforms, idx, release_info, asset, dl,
                   wheel_version, archive_data>>

NextWheel == CallWriteGitWheel

SpecWheel == InitWheel /\ [][NextWheel]_vars

----------------------------------------------------------------------------
(* The tag expansion of write_wheel on its own: a caller joins the         *)
(* alternatives of each field with dots and the fields with dashes, and    *)
(* write_wheel expands the compressed tag.                                 *)

PyTags == {"py2", "py3", "cp39"}
AbiTags == {"none", "abi3"}
PlatformTagPool == {"manylinux_2_17_x86_64", "musllinux_1_1_x86_64", "win_amd64"}

Alternatives(S) == {q \in SeqsUpTo(S, MaxTagAlts) : q # <<>>}

CompressedTag(pytags, abitags, platformtags) ==
    Join(<<Join(pytags, "."), Join(abitags, "."), Join(platformtags, ".")>>, "-")

InitTags ==
    /\ pc = "write_wheel"
    /\ \E xs \in Alternatives(PyTags), ys \in Alternatives(AbiTags),
          zs \in Alternatives(PlatformTagPool) :
            /\ args = [pytags |-> xs, abitags |-> ys, platformtags |-> zs]
            /\ tag_in = CompressedTag(xs, ys, zs)
    /\ expanded = <<>>
    /\ wheel_open = NoWheel
    /\ fs = NoDir
    /\ platforms = <<>>
    /\ idx = 0
    /\ release_info = NoRelease
    /\ asset = NoAsset
    /\ dl = NoDownload
    /\ wheel_version = ""
    /\ archive_data = NoData
    /\ err = ""
    /\ outdir = EmptyDirState
    /\ builds = <<>>

\* Lines 114-121 of write_wheel.
ExpandTags ==
    /\ pc = "write_wheel"
    /\ expanded' = expanded_tags(tag_in)
    /\ pc' = "expanded"
    /\ UNCHANGED <<tag_in, wheel_open, args, fs, platforms, idx, release_info, asset, dl,
                   wheel_version, archive_data, err, outdir, builds>>

NextTags == ExpandTags

SpecTags == InitTags /\ [][NextTags]_vars

----------------------------------------------------------------------------
(* write_wheel_file step by step: the archive is opened at its final path, *)
(* the members are written one by one, and leaving the with block closes   *)
(* the archive, whether the block ended normally or by an exception.       *)
(*                                                                         *)
(* Text is ASCII in this model; a character outside ASCII is written as a  *)
(* \u escape, and the file data of the model holds no such escape.         *)

Contains(s, sub) ==
    \E i \in 1..(Len(s) - Len(sub) + 1) : SubSeq(s, i, i + Len(sub) - 1) = sub

\* bytes(member_source) succeeds: a message is encoded as ASCII.
Encodable(member_source) == ~Contains(member_source, "\\u")

ErrEncode == "UnicodeEncodeError"

\* What README.pypi.md can hold (lines 384-388): absent, plain, not ASCII.
Descriptions == {DefaultDescription, "# Git\n", "# Git \\u2013 caf\\u00e9\n"}

\* A file left at the output path by an earlier run.
PreviousFile == <<writestr(StrKey("python_git_bin/old.py"), "old")>>

\* WheelFile.__init__: <name>-<version>.dist-info/RECORD, from the file name.
record_path(filename) ==
    LET parts == Split(filename, "-")
    IN  parts[1] \o "-" \o parts[2] \o ".dist-info/RECORD"

\* The member names in the order they were first written (the keys of
\* WheelFile._file_hashes).
RECURSIVE FirstNames(_)
FirstNames(entries) ==
    IF entries = <<>> THEN <<>>
    ELSE LET rest == FirstNames(SubSeq(entries, 1, Len(entries) - 1))
             fname == entries[Len(entries)].filename
         IN  IF \E i \in 1..Len(rest) : rest[i] = fname THEN rest
             ELSE Append(rest, fname)

\* WheelFile.close: RECORD lists every member name and itself (the hash and
\* size columns are left out), and is written through writestr by name.
RecordEntry(filename, entries) ==
    LET names == FirstNames(entries)
    IN  writestr(StrKey(record_path(filename)),
                 Join([i \in 1..Len(names) |-> names[i] \o ",,\n"], "")
                    \o record_path(filename) \o ",,\n")

SetFile(dirstate, filename, entries) ==
    [f \in DOMAIN dirstate \cup {filename} |->
        IF f = filename THEN entries ELSE dirstate[f]]

InitWriter ==
    /\ pc = "write_wheel_file"
    /\ \E p \in {"win_amd64", "linux_x86_64"}, description \in Descriptions :
        /\ args = Args("2.47.1", <<p>>, IF p = "win_amd64" THEN "" ELSE "/b", "20260115")
        /\ \/ /\ p = "win_amd64"
              /\ archive_data \in {a \in Archives : a.kind = "zip"}
              /\ fs = NoDir
           \/ /\ p # "win_amd64"
              /\ archive_data = NoData
              /\ fs \in {ADir(t) : t \in Trees}
        /\ \E listing \in Listings(archive_data, args.binary_dir, fs) :
            LET name == "python_git_bin"
                version == "2.47.1.20260115"
            IN  /\ tag_in = "py3-none-" \o PLATFORM_TAGS[p]
                /\ wheel_open =
                    [filename |-> name \o "-" \o version \o "-" \o tag_in \o ".whl",
                     open |-> FALSE,
                     contents |->
                        wheel_contents(name, version, tag_in, GitMetadata, description,
                            IF Truthy(archive_data)
                            THEN AddZipContents(LauncherContents,
                                                iter_zip_contents(archive_data))
                            ELSE AddDirContents(LauncherContents, listing, 1)),
                     n |-> 0]
        /\ outdir \in {EmptyDirState, SetFile(EmptyDirState, wheel_open.filename, PreviousFile)}
    /\ wheel_version = "2.47.1.20260115"
    /\ platforms = args.platform
    /\ expanded = expanded_tags(tag_in)
    /\ idx = 0
    /\ release_info = NoRelease
    /\ asset = NoAsset
    /\ dl = NoDownload
    /\ err = ""
    /\ builds = <<>>

\* Line 103: ReproducibleWheelFile(filename, "w") creates the file, or
\* truncates the one that is there.
OpenWheel ==
    /\ pc = "write_wheel_file"
    /\ wheel_open' = [wheel_open EXCEPT !.open = TRUE]
    /\ outdir' = SetFile(outdir, wheel_open.filename, <<>>)
    /\ pc' = "writing"
    /\ UNCHANGED <<tag_in, expanded, args, fs, platforms, idx, release_info, asset, dl,
                   wheel_version, archive_data, err, builds>>

\* Lines 104-105: one turn of the loop, the member is appended to the file.
WriteMember ==
    /\ pc = "writing"
    /\ wheel_open.n < Len(wheel_open.contents)
    /\ LET item == wheel_open.contents[wheel_open.n + 1]
           f == wheel_open.filename
       IN  /\ Encodable(item.value)
           /\ outdir' = SetFile(outdir, f, Append(outdir[f], writestr(item.key, item.value)))
    /\ wheel_open' = [wheel_open EXCEPT !.n = @ + 1]
    /\ UNCHANGED <<tag_in, expanded, pc, args, fs, platforms, idx, release_info, asset, dl,
                   wheel_version, archive_data, err, builds>>

\* Line 105: bytes(member_source) raises before anything of the member is
\* written.
EncodeFails ==
    /\ pc = "writing"
    /\ wheel_open.n < Len(wheel_open.contents)
    /\ ~Encodable(wheel_open.contents[wheel_open.n + 1].value)
    /\ err' = ErrEncode
    /\ pc' = "raised"
    /\ UNCHANGED <<tag_in, expanded, wheel_open, args, fs, platforms, idx, release_info,
                   asset, dl, wheel_version, archive_data, outdir, builds>>

\* Leaving the with block: WheelFile.close writes RECORD when a member has
\* been written, then the archive is closed.
CloseWheel ==
    /\ \/ pc = "writing" /\ wheel_open.n = Len(wheel_open.contents)
       \/ pc = "raised"
    /\ LET f == wheel_open.filename
       IN  outdir' = IF outdir[f] = <<>> THEN outdir
                     ELSE SetFile(outdir, f, Append(outdir[f], RecordEntry(f, outdir[f])))
    /\ wheel_open' = [wheel_open EXCEPT !.open = FALSE]
    /\ pc' = "closed"
    /\ UNCHANGED <<tag_in, expanded, args, fs, platforms, idx, release_info, asset, dl,
                   wheel_version, archive_data, err, builds>>

NextWriter == OpenWheel \/ WriteMember \/ EncodeFails \/ CloseWheel

SpecWriter == InitWriter /\ [][NextWriter]_vars

----------------------------------------------------------------------------
(* Release lookup and download.                                            *)

\* str.lower()
UpperCase == "ABCDEFGHIJKLMNOPQRSTUVWXYZ"
LowerCase == "abcdefghijklmnopqrstuvwxyz"
LowerChar(c) ==
    IF \E i \in 1..26 : Char(UpperCase, i) = c
    THEN Char(LowerCase, CHOOSE i \in 1..26 : Char(UpperCase, i) = c)
    ELSE c
RECURSIVE Lower(_)
Lower(s) ==
    IF s = "" THEN "" ELSE LowerChar(Char(s, 1)) \o Lower(SubSeq(s, 2, Len(s)))

\* str.replace(old, new) for one-character old.
RECURSIVE Replace(_, _, _)
Replace(s, old, new) ==
    IF s = "" THEN ""
    ELSE (IF Char(s, 1) = old THEN new ELSE Char(s, 1))
            \o Replace(SubSeq(s, 2, Len(s)), old, new)

\* str.split(): the words of s between runs of whitespace.
IsSpace(c) == c \in {" ", "\n", "\t", "\r"}
RECURSIVE Words(_)
Words(s) ==
    LET starts == {i \in 1..Len(s) : ~IsSpace(Char(s, i))}
    IN  IF starts = {} THEN <<>>
        ELSE LET a == CHOOSE i \in starts : \A j \in starts : i <= j
                 ends == {i \in a..Len(s) : IsSpace(Char(s, i))}
                 b == IF ends = {} THEN Len(s) + 1
                      ELSE CHOOSE i \in ends : \A j \in ends : i <= j
             IN  <<SubSeq(s, a, b - 1)>> \o Words(SubSeq(s, b, Len(s)))

\* The end of each MinGit asset pattern: MinGit-[\d.]+<tail>$
MINGIT_PATTERNS ==
    [p \in {"win_amd64", "win_arm64", "win32"} |->
        CASE p = "win_amd64" -> "-64-bit.zip"
          [] p = "win_arm64" -> "-arm64.zip"
          [] p = "win32" -> "-32-bit.zip"]

\* regex.search(name) for the pattern MinGit-[\d.]+<tail>$ : somewhere in
\* name stands "MinGit-", then one or more digits and dots, then the tail,
\* which ends the name.
RegexSearch(tail, name) ==
    \E i \in 1..Len(name) :
        LET j == Len(name) - Len(tail)     \* last position before the tail
        IN  /\ i + 7 <= j
            /\ SubSeq(name, i, i + 6) = "MinGit-"
            /\ SubSeq(name, j + 1, Len(name)) = tail
            /\ \A k \in (i + 7)..j :
                  Char(name, k) \in {"0", "1", "2", "3", "4", "5", "6", "7", "8", "9", "."}

ErrNoPattern == "ValueError: No MinGit pattern for platform"
ErrNoAsset == "ValueError: MinGit asset not found for platform"

\* find_mingit_asset that returns the last asset whose name matches.
find_mingit_asset_LastMatch(release, platform) ==
    IF platform \notin DOMAIN MINGIT_PATTERNS
    THEN [ok |-> FALSE, err |-> ErrNoPattern, asset |-> NoAsset]
    ELSE LET assets == release.assets
             hits == {i \in 1..Len(assets) :
                        RegexSearch(MINGIT_PATTERNS[platform], assets[i].name)}
         IN  IF hits = {}
             THEN [ok |-> FALSE, err |-> ErrNoAsset, asset |-> NoAsset]
             ELSE LET a == assets[CHOOSE i \in hits : \A j \in hits : i >= j]
                      shas == {i \in 1..Len(assets) :
                                  assets[i].name = a.name \o ".sha256"}
                      sha256_url ==
                          IF shas = {} THEN ""
                          ELSE assets[CHOOSE i \in shas : \A j \in shas : i <= j]
                                  .browser_download_url
                  IN  [ok |-> TRUE, err |-> "",
                       asset |-> [url |-> a.browser_download_url, name |-> a.name,
                                  sha256_url |-> sha256_url]]

\* find_mingit_asset: the first asset whose name matches, with the URL of
\* the asset named <name>.sha256 ("" for None).
find_mingit_asset(release, platform) ==
    IF platform \notin DOMAIN MINGIT_PATTERNS
    THEN [ok |-> FALSE, err |-> ErrNoPattern, asset |-> NoAsset]
    ELSE LET assets == release.assets
             hits == {i \in 1..Len(assets) :
                        RegexSearch(MINGIT_PATTERNS[platform], assets[i].name)}
         IN  IF hits = {}
             THEN [ok |-> FALSE, err |-> ErrNoAsset, asset |-> NoAsset]
             ELSE LET a == assets[CHOOSE i \in hits : \A j \in hits : i <= j]
                      shas == {i \in 1..Len(assets) :
                                  assets[i].name = a.name \o ".sha256"}
                      sha256_url ==
                          IF shas = {} THEN ""
                          ELSE assets[CHOOSE i \in shas : \A j \in shas : i <= j]
                                  .browser_download_url
                  IN  [ok |-> TRUE, err |-> "",
                       asset |-> [url |-> a.browser_download_url, name |-> a.name,
                                  sha256_url |-> sha256_url]]

ErrTransport == "URLError"
ErrNotFound == "ValueError: Git for Windows release not found"
ErrMismatch == "ValueError: SHA256 mismatch"
ErrIndex == "IndexError: list index out of range"

\* What urlopen().read() gave: a failure, or a body.
NoResponse == [ok |-> FALSE, body |-> ""]
Response(body) == [ok |-> TRUE, body |-> body]

\* download_with_checksum without the case folding.
download_with_checksum_CaseSensitive(data, sha256_url, expected_sha256, sums) ==
    LET actual_sha256 == data.sha
    IN  IF expected_sha256 # ""
        THEN IF actual_sha256 # expected_sha256
             THEN [ok |-> FALSE, err |-> ErrMismatch]
             ELSE [ok |-> TRUE, err |-> ""]
        ELSE IF sha256_url # ""
        THEN IF ~sums.ok THEN [ok |-> FALSE, err |-> ErrTransport]
             ELSE IF Words(sums.body) = <<>> THEN [ok |-> FALSE, err |-> ErrIndex]
             ELSE IF actual_sha256 # Words(sums.body)[1]
                  THEN [ok |-> FALSE, err |-> ErrMismatch]
                  ELSE [ok |-> TRUE, err |-> ""]
        ELSE [ok |-> TRUE, err |-> ""]

\* download_with_checksum once the asset's bytes are read: data is what the
\* asset URL returned, sums what the checksum URL returns when it is asked.
download_with_checksum(data, sha256_url, expected_sha256, sums) ==
    LET actual_sha256 == data.sha
    IN  IF expected_sha256 # ""
        THEN IF Lower(actual_sha256) # Lower(expected_sha256)
             THEN [ok |-> FALSE, err |-> ErrMismatch]
             ELSE [ok |-> TRUE, err |-> ""]
        ELSE IF sha256_url # ""
        THEN IF ~sums.ok THEN [ok |-> FALSE, err |-> ErrTransport]
             ELSE IF Words(sums.body) = <<>> THEN [ok |-> FALSE, err |-> ErrIndex]
             ELSE IF Lower(actual_sha256) # Lower(Lower(Words(sums.body)[1]))
                  THEN [ok |-> FALSE, err |-> ErrMismatch]
                  ELSE [ok |-> TRUE, err |-> ""]
        ELSE [ok |-> TRUE, err |-> ""]

----------------------------------------------------------------------------
(* main: the command line and the loop over the platforms.                 *)

\* What the command line may name with --platform.
CliPlatforms == {"win_amd64", "win_arm64", "linux_x86_64", "plan9", "all"}

\* The day the clock shows when --build is not given.
Todays == {"20260118"}

\* Directories --binary-dir may point at: one without and one with a
\* subdirectory named after a platform.
MainTrees ==
    { Closure({File("bin/git", 33188, "G"), Symlink("bin/ln", "rh")}),
      Closure({File("linux_x86_64/bin/git", 32768, "L"), File("share/t", 33188, "T")}) }

\* Releases the GitHub API may describe.
Asset(name) == [name |-> name, browser_download_url |-> "https://dl/" \o name]
Releases ==
    { [found |-> TRUE,
       assets |-> << Asset("Git-2.47.1-64-bit.exe"),
                     Asset("MinGit-2.47.1-busybox-64-bit.zip"),
                     Asset("MinGit-2.47.1-64-bit.zip.sha256"),
                     Asset("MinGit-2.47.1-64-bit.zip"),
                     Asset("MinGit-2.47.1-arm64.zip"),
                     Asset("MinGit-2.47.1-32-bit.zip") >>],
      [found |-> TRUE,
       assets |-> << Asset("MinGit-2.47.1-64-bit.zip") >>] }

\* Bytes an asset URL may return, and bodies a checksum URL may return.
Blobs ==
    { Zip(<<ZipEntry("cmd/git.exe", 0, "E")>>, "ab12"),
      Zip(<<ZipEntry("cmd/git.exe", 0, "X")>>, "cd34"),
      EmptyData }
Sums == {"AB12  MinGit-2.47.1-64-bit.zip\n", "ab12", "e3b0 *x", " \n"}

Init ==
    /\ pc = "main"
    /\ args \in {Args("2.47-1", p, b, d) :
                    p \in SeqsUpTo(CliPlatforms, MaxPlatforms),
                    b \in {"", "/b"}, d \in {"", "20260115"}}
    /\ fs \in IF args.binary_dir = "" THEN {NoDir}
              ELSE {NoDir} \cup {ADir(t) : t \in MainTrees}
    /\ platforms = <<>>
    /\ idx = 0
    /\ release_info = NoRelease
    /\ asset = NoAsset
    /\ dl = NoDownload
    /\ wheel_version = ""
    /\ archive_data = NoData
    /\ err = ""
    /\ outdir = EmptyDirState
    /\ builds = <<>>
    /\ tag_in = ""
    /\ expanded = <<>>
    /\ wheel_open = NoWheel

\* An uncaught exception: the process ends with a non-zero status.
Fail(e) == pc' = "failed" /\ err' = e

\* main, up to the loop: the platform list and the wheel version.
ParseArgs ==
    /\ pc = "main"
    /\ IF args.platform = <<>>
       THEN /\ pc' = "exit"
            /\ err' = "SystemExit: 2"
            /\ UNCHANGED <<platforms, wheel_version>>
       ELSE /\ pc' = "loop"
            /\ platforms' =
                 IF \E i \in 1..Len(args.platform) : args.platform[i] = "all"
                 THEN PlatformNames ELSE args.platform
            /\ \E today \in Todays :
                 wheel_version' =
                    Replace(args.version, "-", ".") \o "."
                        \o (IF args.build # "" THEN args.build ELSE today)
            /\ err' = ""
    /\ UNCHANGED <<tag_in, expanded, wheel_open, args, fs, idx, release_info, asset, dl, archive_data, outdir, builds>>

\* The platform the loop is at.
Current == platforms[idx + 1]
InLoop == pc = "loop" /\ idx < Len(platforms)
IsWindows(platform) == StartsWith(platform, "win")

\* SkipUnknown that treats an unknown platform as fatal.
SkipUnknown_Raise ==
    /\ InLoop
    /\ Current \notin DOMAIN PLATFORM_TAGS
    /\ Fail(ErrPlatform)
    /\ UNCHANGED <<tag_in, expanded, wheel_open, args, fs, platforms, idx, release_info, asset, dl, wheel_version,
                   archive_data, outdir, builds>>

\* Loop body: "Unknown platform: ..., skipping".
SkipUnknown ==
    /\ InLoop
    /\ Current \notin DOMAIN PLATFORM_TAGS
    /\ idx' = idx + 1
    /\ UNCHANGED <<tag_in, expanded, wheel_open, pc, args, fs, platforms, release_info, asset, dl, wheel_version,
                   archive_data, err, outdir, builds>>

\* SkipNoBinaryDir that treats the missing option as fatal.
SkipNoBinaryDir_Raise ==
    /\ InLoop
    /\ Current \in DOMAIN PLATFORM_TAGS
    /\ ~IsWindows(Current)
    /\ args.binary_dir = ""
    /\ Fail(ErrNoSource)
    /\ UNCHANGED <<tag_in, expanded, wheel_open, args, fs, platforms, idx, release_info, asset, dl, wheel_version,
                   archive_data, outdir, builds>>

\* Loop body: "Skipping ...: --binary-dir required for non-Windows platforms".
SkipNoBinaryDir ==
    /\ InLoop
    /\ Current \in DOMAIN PLATFORM_TAGS
    /\ ~IsWindows(Current)
    /\ args.binary_dir = ""
    /\ idx' = idx + 1
    /\ UNCHANGED <<tag_in, expanded, wheel_open, pc, args, fs, platforms, release_info, asset, dl, wheel_version,
                   archive_data, err, outdir, builds>>

\* The directory build_local_wheel is given: the platform's subdirectory
\* when there is one, else --binary-dir itself.
LocalDir(platform) ==
    IF fs.exists /\ \E e \in fs.tree : e.rel = platform
    THEN ADir(SubTree(fs.tree, platform))
    ELSE fs

\* BuildLocalWheel that notes the exception and goes on with the loop.
BuildLocalWheel_Continue ==
    /\ InLoop
    /\ Current \in DOMAIN PLATFORM_TAGS
    /\ ~IsWindows(Current)
    /\ args.binary_dir # ""
    /\ \E listing \in Listings(NoData, args.binary_dir, LocalDir(Current)) :
        LET res == write_git_wheel(wheel_version, Current, NoData, args.binary_dir,
                                   LocalDir(Current), listing)
        IN  /\ outdir' = IF res.ok THEN WriteFile(outdir, res) ELSE outdir
            /\ err' = res.err
            /\ idx' = idx + 1
            /\ pc' = pc
    /\ UNCHANGED <<tag_in, expanded, wheel_open, args, fs, platforms, release_info, asset, dl, wheel_version,
                   archive_data, builds>>

\* Loop body: build_local_wheel.
BuildLocalWheel ==
    /\ InLoop
    /\ Current \in DOMAIN PLATFORM_TAGS
    /\ ~IsWindows(Current)
    /\ args.binary_dir # ""
    /\ \E listing \in Listings(NoData, args.binary_dir, LocalDir(Current)) :
        LET res == write_git_wheel(wheel_version, Current, NoData, args.binary_dir,
                                   LocalDir(Current), listing)
        IN  IF res.ok
            THEN /\ outdir' = WriteFile(outdir, res)
                 /\ idx' = idx + 1
                 /\ UNCHANGED <<pc, err>>
            ELSE /\ Fail(res.err)
                 /\ UNCHANGED <<idx, outdir>>
    /\ UNCHANGED <<tag_in, expanded, wheel_open, args, fs, platforms, release_info, asset, dl, wheel_version,
                   archive_data, builds>>

\* build_windows_wheel: fetch_git_for_windows_release.
FetchRelease ==
    /\ InLoop
    /\ Current \in DOMAIN PLATFORM_TAGS
    /\ IsWindows(Current)
    /\ \/ \E r \in Releases : release_info' = r /\ pc' = "find" /\ err' = err
       \/ Fail(ErrNotFound) /\ UNCHANGED release_info
       \/ Fail(ErrTransport) /\ UNCHANGED release_info
    /\ UNCHANGED <<tag_in, expanded, wheel_open, args, fs, platforms, idx, asset, dl, wheel_version, archive_data,
                   outdir, builds>>

\* build_windows_wheel: find_mingit_asset.
FindAsset ==
    /\ pc = "find"
    /\ LET res == find_mingit_asset(release_info, Current)
       IN  IF res.ok
           THEN asset' = res.asset /\ pc' = "download" /\ err' = err
           ELSE Fail(res.err) /\ UNCHANGED asset
    /\ UNCHANGED <<tag_in, expanded, wheel_open, args, fs, platforms, idx, release_info, dl, wheel_version,
                   archive_data, outdir, builds>>

\* build_windows_wheel: download_with_checksum.  The asset URL fails or
\* returns bytes; the checksum URL, when asked, fails or returns a body.
Download ==
    /\ pc = "download"
    /\ \/ Fail(ErrTransport) /\ UNCHANGED <<dl, archive_data>>
       \/ \E data \in Blobs :
          \E sums \in IF asset.sha256_url = "" THEN {NoResponse}
                      ELSE {NoResponse} \cup {Response(b) : b \in Sums} :
            LET res == download_with_checksum(data, asset.sha256_url, "", sums)
            IN  /\ dl' = [done |-> TRUE, data |-> data,
                          sums |-> IF sums.ok THEN sums.body ELSE ""]
                /\ IF res.ok
                   THEN archive_data' = data /\ pc' = "package" /\ err' = err
                   ELSE Fail(res.err) /\ UNCHANGED archive_data
    /\ UNCHANGED <<tag_in, expanded, wheel_open, args, fs, platforms, idx, release_info, asset, wheel_version,
                   outdir, builds>>

\* build_windows_wheel: write_git_wheel on the downloaded archive.
PackageWindows ==
    /\ pc = "package"
    /\ LET res == write_git_wheel(wheel_version, Current, archive_data, "", NoDir, <<>>)
       IN  IF res.ok
           THEN /\ outdir' = WriteFile(outdir, res)
                /\ idx' = idx + 1
                /\ pc' = "loop"
                /\ err' = err
           ELSE /\ Fail(res.err)
                /\ UNCHANGED <<idx, outdir>>
    /\ release_info' = NoRelease
    /\ asset' = NoAsset
    /\ dl' = NoDownload
    /\ archive_data' = NoData
    /\ UNCHANGED <<tag_in, expanded, wheel_open, args, fs, platforms, wheel_version, builds>>

\* The loop is over: "Done! Wheels written to ...".
Finish ==
    /\ pc = "loop"
    /\ idx = Len(platforms)
    /\ pc' = "done"
    /\ UNCHANGED <<tag_in, expanded, wheel_open, args, fs, platforms, idx, release_info, asset, dl, wheel_version,
                   archive_data, err, outdir, builds>>

Next ==
    \/ ParseArgs
    \/ SkipUnknown
    \/ SkipNoBinaryDir
    \/ BuildLocalWheel
    \/ FetchRelease
    \/ FindAsset
    \/ Download
    \/ PackageWindows
    \/ Finish

Spec == Init /\ [][Next]_vars

----------------------------------------------------------------------------
(* find_mingit_asset on its own: any short asset list, any platform.       *)

AssetNames ==
    { "MinGit-2.47.1-64-bit.zip",
      "MinGit-2.47.1-64-bit.zip.sha256",
      "MinGit-2.47.1.2-64-bit.zip",
      "MinGit-2.47.1.2-64-bit.zip.sha256",
      "MinGit-2.47.1-busybox-64-bit.zip",
      "MinGit-2.47.1-arm64.zip" }

AssetPlatforms == {"win_amd64", "win_arm64", "win32", "linux_x86_64"}

InitAsset ==
    /\ pc = "find_mingit_asset"
    /\ release_info \in
        {[found |-> TRUE, assets |-> l] :
            l \in SeqsUpTo({Asset(n) : n \in AssetNames}, MaxAssets)}
    /\ platforms \in {<<p>> : p \in AssetPlatforms}
    /\ args = Args("2.47.1", platforms, "", "")
    /\ fs = NoDir
    /\ idx = 0
    /\ asset = NoAsset
    /\ dl = NoDownload
    /\ wheel_version = ""
    /\ archive_data = NoData
    /\ err = ""
    /\ outdir = EmptyDirState
    /\ builds = <<>>
    /\ tag_in = ""
    /\ expanded = <<>>
    /\ wheel_open = NoWheel

\* One call find_mingit_asset(release_info, platform).
CallFindMingitAsset ==
    /\ pc = "find_mingit_asset"
    /\ LET res == find_mingit_asset(release_info, platforms[1])
       IN  /\ asset' = res.asset
           /\ err' = res.err
           /\ pc' = IF res.ok THEN "returned" ELSE "raised"
    /\ UNCHANGED <<tag_in, expanded, wheel_open, args, fs, platforms, idx, release_info,
                   dl, wheel_version, archive_data, outdir, builds>>

NextAsset == CallFindMingitAsset

SpecAsset == InitAsset /\ [][NextAsset]_vars

----------------------------------------------------------------------------
(* Properties of write_git_wheel, checked under SpecWheel.                 *)

\* The first n characters of s.
Prefix(s, n) == IF Len(s) <= n THEN s ELSE SubSeq(s, 1, n)

\* The archives written from the local build directory.
LocalBuilds == {i \in 1..Len(builds) : builds[i].ok /\ ~Truthy(archive_data)}

\* The archives written from the source zip.
ZipBuilds == {i \in 1..Len(builds) : builds[i].ok /\ Truthy(archive_data)}

\* The positions of the entries of archive i stored under the path name.
At(i, name) ==
    {k \in 1..Len(builds[i].entries) : builds[i].entries[k].filename = name}

\* C1: built from a local directory, every regular file whose relative path
\* starts with bin/ or libexec/ is emitted with mode regular-file|0755
\* whatever its source mode, and every other regular file with the low 16
\* bits of its st_mode.
C1_LocalFileModes ==
    \A i \in LocalBuilds : \A e \in fs.tree :
        e.kind = "file" =>
            /\ Cardinality(At(i, "python_git_bin/git/" \o e.rel)) = 1
            /\ \A k \in At(i, "python_git_bin/git/" \o e.rel) :
                /\ builds[i].entries[k].data = e.data
                /\ builds[i].entries[k].external_attr.lo = 0
                /\ builds[i].entries[k].external_attr.hi =
                     IF \/ Prefix(e.rel, 4) = "bin/"
                        \/ Prefix(e.rel, 8) = "libexec/"
                     THEN 33261
                     ELSE e.mode % 65536

\* A directory with a mode-0000 file under bin/ and a file outside bin/ and
\* libexec/ has been packaged.
C1_Witness ==
    \E i \in LocalBuilds :
        /\ \E e \in fs.tree : e.kind = "file" /\ e.rel = "bin/git" /\ e.mode = 32768
        /\ \E e \in fs.tree : e.kind = "file" /\ e.rel \in {"share/t", "binx/t"}

\* The text of the launcher that invokes the sibling path z.
LauncherFor(z) ==
    "#!/usr/bin/env python3\nimport subprocess\nimport sys\nfrom pathlib import Path\n"
        \o "target = Path(__file__).parent / '" \o z \o "'\n"
        \o "sys.exit(subprocess.call([str(target)] + sys.argv[1:]))\n"

\* C2: built from a local directory, a symlink whose target is exactly "git"
\* produces no entry, and any other symlink Y -> Z produces exactly one
\* entry, at python_git_bin/git/Y, holding the generated launcher for Z and
\* never the bytes of a file.
C2_Symlinks ==
    \A i \in LocalBuilds : \A e \in fs.tree :
        e.kind = "symlink" =>
            IF e.target = "git"
            THEN At(i, "python_git_bin/git/" \o e.rel) = {}
            ELSE /\ Cardinality(At(i, "python_git_bin/git/" \o e.rel)) = 1
                 /\ \A k \in At(i, "python_git_bin/git/" \o e.rel) :
                     /\ builds[i].entries[k].data = LauncherFor(e.target)
                     /\ \A f \in fs.tree :
                            f.kind = "file" => builds[i].entries[k].data # f.data

\* A directory with a link to "git" and a link to another target has been
\* packaged.
C2_Witness ==
    \E i \in LocalBuilds :
        /\ \E e \in fs.tree : e.kind = "symlink" /\ e.target = "git"
        /\ \E e \in fs.tree : e.kind = "symlink" /\ e.target = "../bin/git"

\* C3: two builds of the same input write the same sequence of entries,
\* whatever order the filesystem lists the directory in.
C3_Reproducible ==
    \A i, j \in 1..Len(builds) :
        builds[i].ok /\ builds[j].ok => builds[i].entries = builds[j].entries

\* The positions of the entries of archive i that come from the source tree.
TreeEntries(i) ==
    {k \in 1..Len(builds[i].entries) :
        Prefix(builds[i].entries[k].filename, 19) = "python_git_bin/git/"}

LauncherPaths == {"python_git_bin/__init__.py", "python_git_bin/__main__.py"}

\* C5 as stated: on a collision with a source path the synthesized launcher
\* wins, the path holding one entry with the launcher's content, because
\* the launcher is inserted after the tree traversal.
C5_LauncherInsertedLast ==
    \A i \in 1..Len(builds) : builds[i].ok =>
        /\ \A name \in LauncherPaths :
              (\E k \in TreeEntries(i) : builds[i].entries[k].filename = name)
                  => Cardinality(At(i, name)) = 1
        /\ \A name \in LauncherPaths : \A l \in At(i, name) :
              \A k \in TreeEntries(i) : k < l

\* C5 amended: the launcher is inserted before the traversal and no source
\* path can collide with it: the two launcher files are the first two
\* entries, each path holds exactly one entry with the synthesized content,
\* and every other entry lies under python_git_bin/git/ or in the dist-info
\* directory.
C5_LauncherFirstNoCollision ==
    \A i \in 1..Len(builds) : builds[i].ok =>
        /\ At(i, "python_git_bin/__init__.py") = {1}
        /\ At(i, "python_git_bin/__main__.py") = {2}
        /\ builds[i].entries[1].data = "Git binary distribution package."
        /\ builds[i].entries[2].data = "from python_git_bin import main"
        /\ \A k \in 3..Len(builds[i].entries) :
              \/ k \in TreeEntries(i)
              \/ Prefix(builds[i].entries[k].filename, 41)
                    = "python_git_bin-2.47.1.20260115.dist-info/"

\* A source entry named like the launcher has been packaged.
C5_Witness ==
    \E i \in 1..Len(builds) :
        /\ builds[i].ok
        /\ At(i, "python_git_bin/git/__init__.py") # {}

\* C6: every path of the archive is unique; of two source entries with the
\* same path only one entry is written, with the content of the later one.
C6_UniquePaths ==
    \A i \in 1..Len(builds) : builds[i].ok =>
        \A k, l \in 1..Len(builds[i].entries) :
            builds[i].entries[k].filename = builds[i].entries[l].filename => k = l

\* C7: write_git_wheel fails when neither source is supplied and when the
\* supplied directory does not exist, and a failing call leaves the output
\* directory as it was.
C7_SourceErrors ==
    /\ [](\A i \in 1..Len(builds) :
            /\ (~Truthy(archive_data) /\ args.binary_dir = "") =>
                    /\ ~builds[i].ok
                    /\ platforms[1] \in DOMAIN PLATFORM_TAGS =>
                          builds[i].err =
                            "ValueError: Either archive_data or binary_dir must be provided"
            /\ (~Truthy(archive_data) /\ args.binary_dir # "" /\ ~fs.exists) =>
                    /\ ~builds[i].ok
                    /\ platforms[1] \in DOMAIN PLATFORM_TAGS =>
                          builds[i].err = "ValueError: Binary directory not found")
    /\ [][(Len(builds') > Len(builds) /\ ~builds'[Len(builds')].ok)
              => outdir' = outdir]_vars

\* A call for a missing directory has failed with a wheel of that name
\* already in the output directory.
C7_Witness ==
    /\ builds # <<>>
    /\ ~builds[1].ok
    /\ ~Truthy(archive_data)
    /\ args.binary_dir # ""
    /\ ~fs.exists
    /\ platforms[1] = "linux_x86_64"
    /\ DOMAIN outdir # {}

----------------------------------------------------------------------------
(* Properties of main and build_windows_wheel, checked under Spec.         *)

\* The file name of the wheel of platform p in this run.
WheelNameOf(p) ==
    "python_git_bin-" \o wheel_version \o "-py3-none-" \o PLATFORM_TAGS[p] \o ".whl"

\* The checksum the download step compares with, when it got one.
HasExpected == asset.sha256_url # "" /\ Words(dl.sums) # <<>>
HashesAgree == Lower(Words(dl.sums)[1]) = Lower(dl.data.sha)

\* C4: the download step hands the asset's bytes on exactly when there is
\* no checksum to compare with or the SHA-256 of the bytes equals the
\* expected one, letter case ignored; on a mismatch it raises the integrity
\* error and nothing is written to the output directory, then or later.
C4_ChecksumGate ==
    /\ [](dl.done =>
            ((pc = "package" /\ archive_data = dl.data)
                <=> (asset.sha256_url = "" \/ (HasExpected /\ HashesAgree))))
    /\ []((dl.done /\ HasExpected /\ ~HashesAgree) =>
            (pc = "failed" /\ err = "ValueError: SHA256 mismatch"))
    /\ [][err' = "ValueError: SHA256 mismatch" => outdir' = outdir]_vars

\* A download failed its checksum after an earlier platform's wheel had been
\* written.
C4_Witness ==
    /\ dl.done
    /\ HasExpected
    /\ ~HashesAgree
    /\ pc = "failed"
    /\ DOMAIN outdir # {}

\* C8: the platforms are processed one at a time in the order of the list;
\* the step in which the build of a platform fails leaves the files of the
\* earlier platforms as they are, and after it no platform is attempted and
\* no file is written.
C8_InOrderHaltOnFailure ==
    /\ []((pc # "main" /\ \A i \in 1..Len(args.platform) : args.platform[i] # "all")
            => platforms = args.platform)
    /\ [](idx <= Len(platforms))
    /\ [](\A n \in DOMAIN outdir : \E j \in 1..idx :
            platforms[j] \in DOMAIN PLATFORM_TAGS /\ n = WheelNameOf(platforms[j]))
    /\ [][idx' = idx \/ idx' = idx + 1]_vars
    /\ [][outdir' # outdir =>
            /\ idx' = idx + 1
            /\ DOMAIN outdir' = DOMAIN outdir \cup {WheelNameOf(platforms[idx + 1])}
            /\ \A n \in DOMAIN outdir :
                  n # WheelNameOf(platforms[idx + 1]) => outdir'[n] = outdir[n]]_vars
    /\ [][(pc # "main" /\ err' # "") =>
            (outdir' = outdir /\ idx' = idx /\ pc' = "failed")]_vars

\* A build failed with a wheel written before it and platforms left after
\* it.
C8_Witness ==
    /\ pc = "failed"
    /\ idx >= 1
    /\ DOMAIN outdir # {}
    /\ idx + 1 < Len(platforms)

ConfigErrors ==
    {"ValueError: Either archive_data or binary_dir must be provided",
     "ValueError: Binary directory not found"}

\* C9 as stated: a configuration error aborts only the build of its own
\* platform, the platforms after it are still processed: the run never ends
\* on a configuration error with a platform left unprocessed behind it.
C9_ConfigErrorSkipsOnePlatform ==
    (pc = "failed" /\ err \in ConfigErrors) => idx + 1 >= Len(platforms)

\* C9 amended: an unknown platform name is skipped and the loop goes on
\* with the next platform; the no-source and the missing-directory error
\* end the whole run at the platform they occur on.
C9_UnknownSkippedOthersFatal ==
    /\ [][(pc = "loop" /\ idx < Len(platforms)
              /\ platforms[idx + 1] \notin DOMAIN PLATFORM_TAGS) =>
            (pc' = "loop" /\ idx' = idx + 1 /\ err' = "" /\ outdir' = outdir)]_vars
    /\ [](err \in ConfigErrors => pc = "failed")
    /\ [][(err \in ConfigErrors) => (idx' = idx /\ outdir' = outdir)]_vars

\* An unknown platform was skipped and the next one ended the run with the
\* missing-directory error.
C9_Witness ==
    /\ pc = "failed"
    /\ err = "ValueError: Binary directory not found"
    /\ idx = 1
    /\ platforms[1] = "plan9"

\* The step that skips a non-Windows platform for want of --binary-dir.
SkipsQuietly ==
    (/\ pc = "loop"
     /\ idx < Len(platforms)
     /\ platforms[idx + 1] \in DOMAIN PLATFORM_TAGS
     /\ Prefix(platforms[idx + 1], 3) # "win"
     /\ args.binary_dir = "")
        => (pc' = "loop" /\ idx' = idx + 1 /\ err' = "" /\ outdir' = outdir)

\* The run has ended; it ended on the failed build of an attempted platform.
Ended == pc \in {"done", "failed", "exit"}
AttemptFailed ==
    /\ pc = "failed"
    /\ idx < Len(platforms)
    /\ platforms[idx + 1] \in DOMAIN PLATFORM_TAGS
    /\ Prefix(platforms[idx + 1], 3) = "win" \/ args.binary_dir # ""

\* C10 as stated: a non-Windows platform without --binary-dir is skipped
\* without a file, an error or an end of the loop, and the process exits
\* non-zero exactly when an attempted platform failed.
C10_NonZeroIffAttemptFailed ==
    /\ [][SkipsQuietly]_vars
    /\ [](Ended => ((pc # "done") <=> AttemptFailed))

\* C10 amended: ... and the process exits non-zero exactly when an attempted
\* platform failed or no --platform was given at all.
C10_NonZeroIffFailedOrNoPlatform ==
    /\ [][SkipsQuietly]_vars
    /\ [](Ended => ((pc # "done") <=> (AttemptFailed \/ args.platform = <<>>)))
    /\ [](pc = "exit" <=> (pc # "main" /\ args.platform = <<>>))

\* A non-Windows platform was skipped, the platform after it was built, and
\* the run ended normally.
C10_Witness ==
    /\ pc = "done"
    /\ args.binary_dir = ""
    /\ Len(platforms) = 2
    /\ platforms[1] = "linux_x86_64"
    /\ DOMAIN outdir # {}

----------------------------------------------------------------------------
(* The output directory across the iterations, checked under Spec.         *)

\* The platform at position j of the list is one the loop builds a wheel
\* for (it is neither unknown nor skipped for want of --binary-dir).
Built(j) ==
    /\ platforms[j] \in DOMAIN PLATFORM_TAGS
    /\ Prefix(platforms[j], 3) = "win" \/ args.binary_dir # ""

\* No platform that is built is named twice in the list.
NoRepeat ==
    \A i, j \in 1..Len(platforms) :
        (Built(i) /\ Built(j) /\ platforms[i] = platforms[j]) => i = j

\* No file of the output directory is removed or changed by the step.
FilesKept == \A n \in DOMAIN outdir : n \in DOMAIN outdir' /\ outdir'[n] = outdir[n]

\* The step writes a wheel, and under a name the directory does not hold yet.
WritesNewName ==
    (idx' = idx + 1 /\ Built(idx + 1)) =>
        /\ WheelNameOf(platforms[idx + 1]) \notin DOMAIN outdir
        /\ WheelNameOf(platforms[idx + 1]) \in DOMAIN outdir'

\* C11 as stated: for any platform list, one that names a platform twice
\* included, every processed platform writes a file named unlike the file
\* of every other processed platform, and no iteration overwrites or
\* removes a file of an earlier one.
C11_AppendOnlyAnyList ==
    /\ [](\A i, j \in 1..idx :
            (Built(i) /\ Built(j) /\ i # j) =>
                WheelNameOf(platforms[i]) # WheelNameOf(platforms[j]))
    /\ [][FilesKept /\ WritesNewName]_vars

\* C11 amended: platforms of different names write files of different
\* names, and when no built platform is named twice the output directory is
\* append-only; a platform named twice writes the same file name again, the
\* later build replacing the earlier file.
C11_AppendOnlyWithoutRepeats ==
    /\ [](\A i, j \in 1..idx :
            (Built(i) /\ Built(j)) =>
                /\ WheelNameOf(platforms[i]) \in DOMAIN outdir
                /\ (platforms[i] # platforms[j]) =>
                      WheelNameOf(platforms[i]) # WheelNameOf(platforms[j])
                /\ (platforms[i] = platforms[j]) =>
                      WheelNameOf(platforms[i]) = WheelNameOf(platforms[j]))
    /\ [][NoRepeat => (FilesKept /\ WritesNewName)]_vars
    /\ [][DOMAIN outdir \subseteq DOMAIN outdir']_vars

\* Two different platforms have been built, their two wheels side by side.
C11_Witness ==
    /\ idx = 2
    /\ Built(1)
    /\ Built(2)
    /\ platforms[1] # platforms[2]
    /\ Cardinality(DOMAIN outdir) = 2

----------------------------------------------------------------------------
(* The tag expansion, checked under SpecTags.                              *)

\* C12: the expansion of py-abi-platform holds one dash-joined tag for each
\* combination of the three dot-separated lists, |py|*|abi|*|platform| tags
\* in all, ordered with the platform outermost, the abi in the middle and the
\* python tag varying fastest; py3-none-manylinux_2_17_x86_64.musllinux_1_1_x86_64
\* yields py3-none-manylinux_2_17_x86_64 then py3-none-musllinux_1_1_x86_64.
C12_TagExpansion ==
    pc = "expanded" =>
        LET xs == args.pytags
            ys == args.abitags
            zs == args.platformtags
        IN  /\ Len(expanded) = Len(xs) * Len(ys) * Len(zs)
            /\ \A c \in 1..Len(zs), b \in 1..Len(ys), a \in 1..Len(xs) :
                    expanded[((c - 1) * Len(ys) + (b - 1)) * Len(xs) + a]
                        = xs[a] \o "-" \o ys[b] \o "-" \o zs[c]
            /\ tag_in = "py3-none-manylinux_2_17_x86_64.musllinux_1_1_x86_64" =>
                    expanded = <<"py3-none-manylinux_2_17_x86_64",
                                 "py3-none-musllinux_1_1_x86_64">>

C12_Witness ==
    /\ pc = "expanded"
    /\ tag_in = "py2.py3-none.abi3-manylinux_2_17_x86_64.musllinux_1_1_x86_64"
    /\ Len(expanded) = 8
    /\ expanded[2] = "py3-none-manylinux_2_17_x86_64"
    /\ expanded[3] = "py2-abi3-manylinux_2_17_x86_64"
    /\ expanded[5] = "py2-none-musllinux_1_1_x86_64"

----------------------------------------------------------------------------
(* The members taken from a source zip, checked under SpecWheel.           *)

Suffix(s, n) == IF Len(s) <= n THEN s ELSE SubSeq(s, Len(s) - n + 1, Len(s))

\* C15: built from a source zip, every member that is not a directory is
\* placed at python_git_bin/git/<member name> with its data, whatever
\* directory it is in, a directory member produces no entry, and the mode is
\* the upper 16 bits of the member's external attributes when they are not
\* zero, otherwise 0755 for a name ending in ".exe", otherwise 0644.
C15_ZipMembers ==
    \A i \in ZipBuilds :
        LET members == archive_data.infolist
            entries == builds[i].entries
        IN  /\ Len(entries) =
                5 + Cardinality({j \in 1..Len(members) :
                                    Suffix(members[j].filename, 1) # "/"})
            /\ \A j \in 1..Len(members) :
                IF Suffix(members[j].filename, 1) = "/"
                THEN At(i, "python_git_bin/git/" \o members[j].filename) = {}
                ELSE \E k \in At(i, "python_git_bin/git/" \o members[j].filename) :
                        /\ entries[k].data = members[j].data
                        /\ entries[k].external_attr.lo = 0
                        /\ entries[k].external_attr.hi =
                             IF members[j].external_attr.hi # 0
                             THEN members[j].external_attr.hi
                             ELSE IF Suffix(members[j].filename, 4) = ".exe"
                                  THEN 493
                                  ELSE 420

\* A zip holding an .exe without a stored mode and a file under bin/ with
\* stored mode 0644 has been packaged.
C15_Witness ==
    \E i \in ZipBuilds :
        /\ Len(archive_data.infolist) = 2
        /\ archive_data.infolist[1].filename = "cmd/git.exe"
        /\ archive_data.infolist[1].external_attr = [hi |-> 0, lo |-> 32]
        /\ archive_data.infolist[2].filename = "bin/git"
        /\ builds[i].entries[3].external_attr.hi = 493
        /\ builds[i].entries[4].filename = "python_git_bin/git/bin/git"
        /\ builds[i].entries[4].external_attr.hi = 33188

----------------------------------------------------------------------------
(* The file at the output path while it is written, checked under          *)
(* SpecWriter.                                                             *)

CompleteArchive(file, contents) ==
    /\ Len(file) = Len(contents) + 1
    /\ \A i \in 1..Len(contents) : file[i] = writestr(contents[i].key, contents[i].value)
    /\ file[Len(file)].filename = record_path(wheel_open.filename)

\* C13: while write_wheel_file runs and after it, failed or not, the file at
\* the output path is absent, or the untouched previous file, or a complete
\* archive holding every entry of the build.
C13_OnlyCompleteArchiveExposed ==
    LET f == wheel_open.filename
    IN  \/ f \notin DOMAIN outdir
        \/ outdir[f] = PreviousFile
        \/ CompleteArchive(outdir[f], wheel_open.contents)

----------------------------------------------------------------------------
(* The attributes of the members, checked under SpecWriter.                *)

\* C14: every entry written through writestr, by name or by descriptor, has
\* the timestamp 1980-01-01 00:00:00, the deflate method and creator system
\* 3; an entry passed by name has mode 0644, or 0664 when the name ends in
\* ".dist-info/RECORD"; an entry passed as a descriptor keeps the external
\* attributes the descriptor supplies.
C14_EntryAttributes ==
    (wheel_open.open \/ pc = "closed") =>
        LET file == outdir[wheel_open.filename]
            contents == wheel_open.contents
        IN  /\ Len(file) \in {wheel_open.n, wheel_open.n + 1}
            /\ \A i \in 1..Len(file) :
                /\ file[i].date_time = <<1980, 1, 1, 0, 0, 0>>
                /\ file[i].compress_type = 8
                /\ file[i].create_system = 3
                /\ i <= wheel_open.n =>
                    /\ file[i].filename = contents[i].key.filename
                    /\ contents[i].key.zinfo =>
                        file[i].external_attr = contents[i].key.external_attr
                    /\ ~contents[i].key.zinfo =>
                        /\ ~EndsWith(file[i].filename, ".dist-info/RECORD")
                        /\ file[i].external_attr = [hi |-> 420, lo |-> 0]
                /\ i = wheel_open.n + 1 =>
                    /\ EndsWith(file[i].filename, ".dist-info/RECORD")
                    /\ file[i].external_attr = [hi |-> 436, lo |-> 0]

C14_Witness ==
    /\ pc = "closed"
    /\ err = ""
    /\ LET file == outdir[wheel_open.filename]
       IN  /\ file[1].external_attr.hi = 420
           /\ file[Len(file)].external_attr.hi = 436
           /\ \E i \in 1..wheel_open.n :
                /\ wheel_open.contents[i].key.zinfo
                /\ file[i].external_attr.hi = 33261

----------------------------------------------------------------------------
(* The asset lookup, checked under SpecAsset.                              *)

\* C16: find_mingit_asset fails with an error when the platform has no
\* pattern and with a not-found error when no asset name matches the
\* platform's pattern; otherwise it returns the first asset, in list order,
\* whose name matches, with the URL of the asset named exactly that name plus
\* ".sha256", or no checksum URL when there is none; the checksum URL is
\* never that of an asset with another name.
C16_FindMingitAsset ==
    pc # "find_mingit_asset" =>
        LET assets == release_info.assets
            platform == platforms[1]
        IN  IF platform \notin {"win_amd64", "win_arm64", "win32"}
            THEN pc = "raised" /\ err = ErrNoPattern /\ asset = NoAsset
            ELSE LET M == {i \in 1..Len(assets) :
                            RegexSearch(MINGIT_PATTERNS[platform], assets[i].name)}
                     S == {k \in 1..Len(assets) :
                            assets[k].name = asset.name \o ".sha256"}
                 IN  IF M = {}
                     THEN pc = "raised" /\ err = ErrNoAsset /\ asset = NoAsset
                     ELSE /\ pc = "returned" /\ err = ""
                          /\ \E i \in M :
                                /\ \A j \in M : i <= j
                                /\ asset.name = assets[i].name
                                /\ asset.url = assets[i].browser_download_url
                          /\ S = {} => asset.sha256_url = ""
                          /\ S # {} => \E k \in S :
                                asset.sha256_url = assets[k].browser_download_url
                          /\ \A k \in 1..Len(assets) :
                                k \notin S =>
                                    asset.sha256_url # assets[k].browser_download_url

\* Two assets match, the second one alone has a checksum asset: the first
\* is returned, without a checksum URL.
C16_Witness ==
    /\ pc = "returned"
    /\ platforms = <<"win_amd64">>
    /\ Len(release_info.assets) = 3
    /\ release_info.assets[1].name = "MinGit-2.47.1.2-64-bit.zip"
    /\ release_info.assets[2].name = "MinGit-2.47.1-64-bit.zip.sha256"
    /\ release_info.assets[3].name = "MinGit-2.47.1-64-bit.zip"
    /\ asset.name = "MinGit-2.47.1.2-64-bit.zip"
    /\ asset.sha256_url = ""

====
